---- MODULE Spec2Model ----
(***************************************************************************)
(* Model of the progressive bot generator (src/generators/bot_generator.ts) *)
(* BotGenerator.generateBot: discovery phase, the iterative micro-plan     *)
(* loop of generateWorkflowPhase, the step executor executeGeneratedStep,  *)
(* and the progress records written through BotStorageManager.             *)
(* WorkflowEngine.run and executeStep (src/executors/workflow_engine.ts)    *)
(* are modelled as a machine of their own, EngineSpec.                     *)
(***************************************************************************)
EXTENDS Integers, Sequences, FiniteSets, TLC

VARIABLES
    pc,               \* position of generateBot / generateWorkflowPhase
    outcome,          \* "running" | "returned" | "threw" : how generateBot left its try block
    thrown,           \* the Error that left the try block ("none" while there is none)
    generated_steps,  \* context.generated_steps
    steps,            \* the local `steps` array of the running phase
    microPlanCount,   \* generateWorkflowPhase: microPlanCount
    microPlan,        \* microPlan.steps of the plan in hand (a sequence of plan steps)
    planIdx,          \* index of the next planStep of the for-loop
    stored,           \* the bot's record in bots_metadata.json (NoMeta before the first save)
    sessionSaved,     \* finally: sandbox.saveSession() was attempted
    closed,           \* finally: sandbox.close() and analyzer.close() were called
    \* ---- observation (history) variables: written, never read by the controller
    planCalls,        \* number of deepseek.createMicroPlan calls of the run
    goalFulfilled,    \* deepseek.isIntentFulfilled has returned true in the run
    gate,             \* confirmMicroPlan's answer for the plan in hand
    planExec,         \* success flags of the steps of the plan in hand, in execution order
    histAtPlan,       \* context.generated_steps as it was when the plan in hand was made
    world,            \* what the planner and the page can do in this run: "open" | "steady"
    decision,         \* the decision named by the last answer given at a gate
    recognised,       \* whether that answer was one of the choices the prompt offers
    fresh,            \* page state captured and goal checked since the last step execution
    exec_in,          \* ExecSpec: the arguments handed to executeGeneratedStep
    exec_out,         \* ExecSpec: the value it returned
    compile_in,       \* CompileSpec: context.generated_steps handed to compileBotFiles
    compile_out,      \* CompileSpec: the workflowConfig it built
    \* ---- WorkflowEngine (src/executors/workflow_engine.ts)
    config,           \* this.config: start_step and steps_config
    stepFunctions,    \* this.stepFunctions: the registered function keys
    currentStepName,  \* run(): currentStepName
    stepCount,        \* run(): stepCount
    stepEvent,        \* run(): the event returned by executeStep in this iteration
    runError,         \* the Error with which run() rejected ("none" while there is none)
    log,              \* what run() has written to the console
    invocations,      \* number of step functions invoked by executeStep in the run
    stepRun,          \* what the step function invoked in this iteration does
    lingering         \* the steps whose timed-out function has not reached a yield yet

vars == <<pc, outcome, thrown, generated_steps, steps, microPlanCount, microPlan, planIdx,
          stored, sessionSaved, closed, planCalls, goalFulfilled, gate, planExec,
          histAtPlan, fresh, decision, recognised, world, exec_in, exec_out, config,
          stepFunctions,
          currentStepName, stepCount, stepEvent, runError, log, invocations, stepRun,
          lingering, compile_in, compile_out>>

compileVars == <<compile_in, compile_out>>

engineVars == <<config, stepFunctions, currentStepName, stepCount, stepEvent, runError,
                log, invocations, stepRun, lingering>>

----------------------------------------------------------------------------
(* Bounds of the model and constants of the program *)

\* const maxMicroPlans = 20
maxMicroPlans == 20

\* largest number of steps the planner's JSON answer carries in the model
MaxPlanLen == 6

\* largest number of step executions the page lets succeed in one run
MaxCommits == 3

\* largest number of entries of the `selectors = [...]` array of a generated step
MaxFallbacks == 3

\* largest number of committed steps of a history handed to compileBotFiles
MaxCompiled == 4

\* "Create micro-plan (3-5 steps)": the size a micro-plan is asked to have
MinPlanSteps == 3
MaxPlanSteps == 5

\* fallbacks.slice(0, 2): how many fallback selectors are tried
FallbackSlice == 2

NoMeta == [status |-> "none", current_step |-> 0, total_steps |-> 0]
NoInput == [called |-> FALSE]
NoResult == [success |-> FALSE, event |-> "unset", error |-> "unset", acted |-> "none",
             target |-> -1, attempted |-> <<>>, criterion_held |-> FALSE]

----------------------------------------------------------------------------
(* executeGeneratedStep *)

\* the selector extractPrimarySelector returns; the entries of the generated
\* `selectors = [...]` array are numbered 1..MaxFallbacks
Primary == 0
Selectors == 0..MaxFallbacks
Tags == {"button", "a", "input", "textarea", "select", "div"}
\* the keywords of lines 804-821 that the extracted function name includes
FnNames == {{}, {"click"}, {"fill"}, {"press"}, {"press", "enter"}, {"select"}}
\* extractFallbackSelectors: every quoted entry of the array, in order; the array
\* may or may not start with the primary selector itself
FallbackLists == {[i \in 1..k |-> i] : k \in 0..MaxFallbacks}
                 \cup {[i \in 1..k |-> i - 1] : k \in 1..MaxFallbacks}

\* code: what the extract* helpers read from the generated TypeScript
\*   selector  : extractPrimarySelector found a selector
\*   fn        : the keywords the extracted function name includes
\*   fallbacks : extractFallbackSelectors' result
Codes == [selector : BOOLEAN, fn : FnNames, fallbacks : FallbackLists]
\* env: the live page
\*   page      : per selector, "absent" (waitForSelector times out), "ok", or
\*               "raises" (the element is found and raises when acted on)
\*   tag       : tagName of the element of the primary selector
\*   criterion : the step's test criterion holds on the page after the action
Envs == [page : [Selectors -> {"absent", "ok", "raises"}], tag : Tags, criterion : BOOLEAN]

\* lines 804-828: the if / else-if chain over functionName.includes(..) and tagName
ActionKind(fn, tag) ==
    IF "click" \in fn \/ "button" \in fn \/ tag = "button" \/ tag = "a" THEN "click"
    ELSE IF "fill" \in fn \/ "type" \in fn \/ "input" \in fn
            \/ tag = "input" \/ tag = "textarea" THEN "fill"
    ELSE IF "press" \in fn /\ "enter" \in fn THEN "press"
    ELSE IF "select" \in fn \/ tag = "select" THEN "select"
    ELSE "none"

\* the value executeGeneratedStep returns, with what it did to get there:
\*   acted / target : the action performed and the selector of its element
\*                    ("none" and -1 when no action was performed)
\*   attempted      : the selectors handed to waitForSelector, in order
\*   criterion_held : whether the test criterion held on the page it left
Result(success, event, error, acted, target, attempted, env) ==
    [success |-> success, event |-> event, error |-> error, acted |-> acted,
     target |-> target, attempted |-> attempted, criterion_held |-> env.criterion]

\* lines 855-880: the loop over fallbacks.slice(0, 2); i is the index of the fallback
\* tried next, tried the selectors attempted so far, err the error of the primary attempt
RECURSIVE TryFallbacks(_, _, _, _, _)
TryFallbacks(fallbacks, env, i, tried, err) ==
    IF i > Len(fallbacks) \/ i > FallbackSlice
    THEN \* throw error (line 880), caught at line 893
         Result(FALSE, "none", err, "none", -1, tried, env)
    ELSE IF env.page[fallbacks[i]] = "ok"
    THEN Result(TRUE, "success_event", "none", "click", fallbacks[i],
                Append(tried, fallbacks[i]), env)
    ELSE TryFallbacks(fallbacks, env, i + 1, Append(tried, fallbacks[i]), err)

\* The step executor as it was before docs/EXECUTION_FIX.md ("No More Lying"):
\* code without a selector, and an element with no action, were reported as success.
executeGeneratedStep_lying(code, env) ==
    IF ~code.selector
    THEN Result(TRUE, "success_event", "none", "none", -1, <<>>, env)
    ELSE IF env.page[Primary] = "absent"
    THEN TryFallbacks(code.fallbacks, env, 1, <<Primary>>, "timeout")
    ELSE IF ActionKind(code.fn, env.tag) = "none"
    THEN Result(TRUE, "success_event", "none", "none", -1, <<Primary>>, env)
    ELSE IF env.page[Primary] = "raises"
    THEN TryFallbacks(code.fallbacks, env, 1, <<Primary>>, "action_raised")
    ELSE Result(TRUE, "success_event", "none", ActionKind(code.fn, env.tag), Primary,
                <<Primary>>, env)

\* The step executor reporting success once every selector has been tried in vain
executeGeneratedStep_silent(code, env) ==
    IF ~code.selector
    THEN Result(FALSE, "element_not_found", "No selector found in generated code",
                "none", -1, <<>>, env)
    ELSE IF env.page[Primary] = "absent"
    THEN LET r == TryFallbacks(code.fallbacks, env, 1, <<Primary>>, "timeout")
         IN  IF r.success THEN r
             ELSE Result(TRUE, "success_event", "none", "none", -1, r.attempted, env)
    ELSE IF ActionKind(code.fn, env.tag) = "none"
    THEN Result(FALSE, "no_action", "Element found but no action could be determined",
                "none", -1, <<Primary>>, env)
    ELSE IF env.page[Primary] = "raises"
    THEN TryFallbacks(code.fallbacks, env, 1, <<Primary>>, "action_raised")
    ELSE Result(TRUE, "success_event", "none", ActionKind(code.fn, env.tag), Primary,
                <<Primary>>, env)

executeGeneratedStep(code, env) ==
    IF ~code.selector
    THEN \* lines 882-890
         Result(FALSE, "element_not_found", "No selector found in generated code",
                "none", -1, <<>>, env)
    ELSE IF env.page[Primary] = "absent"
    THEN \* waitForSelector throws: lines 851-880
         TryFallbacks(code.fallbacks, env, 1, <<Primary>>, "timeout")
    ELSE IF ActionKind(code.fn, env.tag) = "none"
    THEN \* lines 830-838
         Result(FALSE, "no_action", "Element found but no action could be determined",
                "none", -1, <<Primary>>, env)
    ELSE IF env.page[Primary] = "raises"
    THEN \* the action throws inside the try block: lines 851-880
         TryFallbacks(code.fallbacks, env, 1, <<Primary>>, "action_raised")
    ELSE \* lines 840-849
         Result(TRUE, "success_event", "none", ActionKind(code.fn, env.tag), Primary,
                <<Primary>>, env)

----------------------------------------------------------------------------
(* Console answers and planner replies, as the characters typed or returned *)

ToLowerChar(c) ==
    CASE c = "A" -> "a" [] c = "C" -> "c" [] c = "M" -> "m"
      [] c = "N" -> "n" [] c = "Y" -> "y" [] OTHER -> c

\* String.prototype.toLowerCase
ToLowerCase(str) == [i \in 1..Len(str) |-> ToLowerChar(str[i])]

\* String.prototype.trim
RECURSIVE Trim(_)
Trim(str) ==
    IF str = <<>> THEN <<>>
    ELSE IF Head(str) = " " THEN Trim(Tail(str))
    ELSE IF str[Len(str)] = " " THEN Trim(SubSeq(str, 1, Len(str) - 1))
    ELSE str

\* String.prototype.startsWith
StartsWith(str, prefix) ==
    Len(str) >= Len(prefix) /\ SubSeq(str, 1, Len(prefix)) = prefix

\* what the user may type at a prompt
Answers == { <<>>, <<" ">>, <<"y">>, <<"Y">>, <<" ", "y", " ">>, <<"y", "e", "s">>,
             <<"n">>, <<"N">>, <<"n", "o">>, <<" ", "n">>, <<"x">>,
             <<"a">>, <<"A">>, <<"a", "p", "p", "r", "o", "v", "e">>,
             <<"m">>, <<"m", "o", "d", "i", "f", "y">>,
             <<"c">>, <<" ", "C">>, <<"c", "a", "n", "c", "e", "l">> }

\* what the chat endpoint may answer to the goal question
GoalReplies == { <<"y", "e", "s">>, <<"Y", "e", "s", ".">>, <<" ", "y", "e", "s">>,
                 <<"n", "o">>, <<"N", "o", ".">>, <<"y">>, <<"n", "o", "t", " ", "y", "e", "s">> }

\* promptPlanAction: the decision read from the answer
promptPlanAction(answer) ==
    LET choice == Trim(ToLowerCase(answer))
    IN  IF choice = <<"a">> \/ choice = <<"a", "p", "p", "r", "o", "v", "e">> THEN "approve"
        ELSE IF choice = <<"m">> \/ choice = <<"m", "o", "d", "i", "f", "y">> THEN "modify"
        ELSE IF choice = <<"c">> \/ choice = <<"c", "a", "n", "c", "e", "l">> THEN "cancel"
        ELSE "approve"

\* the answers the prompt '[A]pprove / [M]odify / [C]ancel?' offers (line 430), in
\* either case and with blanks around them
OfferedAtPlanGate(answer) ==
    Trim(ToLowerCase(answer)) \in
        { <<"a">>, <<"a", "p", "p", "r", "o", "v", "e">>, <<"m">>,
          <<"m", "o", "d", "i", "f", "y">>, <<"c">>, <<"c", "a", "n", "c", "e", "l">> }

\* the answers the prompt 'Execute this micro-plan? [Y/n]' offers (line 763): y or
\* yes, n or no, and the bare Enter that takes the capitalised default
OfferedAtMicroGate(answer) ==
    Trim(ToLowerCase(answer)) \in
        { <<>>, <<"y">>, <<"y", "e", "s">>, <<"n">>, <<"n", "o">> }

\* confirmMicroPlan: approved = !answer.trim() || answer.toLowerCase().trim().startsWith('y')
confirmMicroPlan(answer) ==
    Trim(answer) = <<>> \/ StartsWith(Trim(ToLowerCase(answer)), <<"y">>)

\* DeepSeekClient.isIntentFulfilled: response.toLowerCase().trim().startsWith('yes')
isIntentFulfilled(response) ==
    StartsWith(Trim(ToLowerCase(response)), <<"y", "e", "s">>)

\* what the chat endpoint may answer to the micro-plan request: JSON carrying a
\* `steps` array of n entries, or text JSON.parse does not accept
PlanReplies == [parses : {TRUE}, n : 0..MaxPlanLen] \cup {[parses |-> FALSE, n |-> 0]}

\* DeepSeekClient.createMicroPlan: the parsed steps, or the one-step fallback plan
createMicroPlan(reply) ==
    IF reply.parses THEN [i \in 1..reply.n |-> i] ELSE <<1>>

----------------------------------------------------------------------------
(* BotStorageManager and saveBotProgress *)

\* saveBotProgress followed by BotStorageManager.saveBotMetadata: the record kept in
\* bots_metadata.json is the metadata without its generated_steps ("lightweight")
\* lines 1143-1164: the BotMetadata built by saveBotProgress; current_step is
\* context.current_step, which stays at its initial value 1
BuildMetadata(history) ==
    [status |-> "in_progress", current_step |-> 1, total_steps |-> Len(history),
     generated_steps |-> history]

\* BotStorageManager.saveBotMetadata: delete lightweightMetadata.generated_steps, then
\* write the record into the bots array
saveBotMetadata(metadata) ==
    [f \in DOMAIN metadata \ {"generated_steps"} |-> metadata[f]]

\* BotStorageManager.loadBotMetadata: the record of the bot as the file holds it
loadBotMetadata(file) == file

\* generateBot lines 80-85: the history a continued run starts from; without the
\* field existingBot.generated_steps is undefined and nothing is restored
HasSteps(meta) == "generated_steps" \in DOMAIN meta

saveBotProgress(history) == saveBotMetadata(BuildMetadata(history))

\* BotStorageManager.updateBotStatus: no record, no change
updateBotStatus(meta, status) ==
    IF meta.status = "none" THEN meta ELSE [meta EXCEPT !.status = status]

----------------------------------------------------------------------------
(* generateWorkflowPhase: the decisions of the micro-plan loop *)

\* the entry of the committed history built at lines 727-733; idx is the plan step
\* it came from (planStep.action), 0 for the navigation step
StepInfo(history, idx, result) ==
    [step_number |-> Len(history) + 1, idx |-> idx, success |-> result.success]

\* a push that overwrites the newest entry instead of extending the history
PushStep_replaces_last(history, info) ==
    IF history = <<>> THEN <<info>> ELSE [history EXCEPT ![Len(history)] = info]

\* context.generated_steps.push(step): the history grows at its end
PushStep(history, info) == Append(history, info)

\* while (microPlanCount < maxMicroPlans)
LoopGuard_inclusive(count) == count <= maxMicroPlans
LoopGuard(count) == count < maxMicroPlans

\* if (isFulfilled) { ... break; }
GoalBreak_never(fulfilled) == FALSE
GoalBreak(fulfilled) == fulfilled

\* if (!approved) { ... break; }
GateBreak_never(approved) == FALSE
GateBreak_inverted(approved) == approved
GateBreak(approved) == ~approved

\* if (executionResult.success) { steps.push(..); context.generated_steps.push(..) }
ShouldCommit_always(result) == TRUE
ShouldCommit(result) == result.success

\* else { ... break; }  -- skip the rest of this micro-plan
StopsPlan_never(result) == FALSE
StopsPlan(result) == ~result.success

\* where the for-loop goes after the step at index idx of a plan of n steps
AfterStep_retry(result, idx, n) ==
    IF StopsPlan(result) THEN [pc |-> "exec", idx |-> idx]
    ELSE IF idx = n THEN [pc |-> "loop", idx |-> 0]
    ELSE [pc |-> "exec", idx |-> idx + 1]
AfterStep_gives_up(result, idx, n) ==
    IF StopsPlan(result) THEN [pc |-> "phase_end", idx |-> 0]
    ELSE IF idx = n THEN [pc |-> "loop", idx |-> 0]
    ELSE [pc |-> "exec", idx |-> idx + 1]
AfterStep_replans(result, idx, n) ==
    IF StopsPlan(result) \/ idx = n THEN [pc |-> "plan", idx |-> 0]
    ELSE [pc |-> "exec", idx |-> idx + 1]
AfterStep(result, idx, n) ==
    IF StopsPlan(result) \/ idx = n THEN [pc |-> "loop", idx |-> 0]
    ELSE [pc |-> "exec", idx |-> idx + 1]

\* totalElements < 5: the analyzer found few elements
FewElements == 5

\* the generated code and page that one plan step may meet in a run
StepCodes == {c \in Codes : c.fn \in {{}, {"click"}} /\ c.fallbacks \in {<<>>, <<1>>}}
StepEnvs == {e \in Envs : /\ e.tag = "div"
                          /\ \A sel \in Selectors : sel > 1 => e.page[sel] = "absent"}
\* a page on which no selector resolves
DeadEnvs == {e \in StepEnvs : \A sel \in Selectors : e.page[sel] = "absent"}

\* The runs considered. In an "open" run the planner returns plans of any length, the
\* generated code and the page vary, and the page stops resolving selectors once
\* MaxCommits steps are committed. In a "steady" run every plan has MaxPlanLen steps
\* and every step clicks an element that is there.
PlanRepliesIn(w) ==
    IF w = "steady" THEN {[parses |-> TRUE, n |-> MaxPlanLen]} ELSE PlanReplies
StepCodesIn(w) ==
    IF w = "steady"
    THEN {c \in StepCodes : c.selector /\ c.fn = {"click"} /\ c.fallbacks = <<>>}
    ELSE StepCodes
StepEnvsIn(w, committed) ==
    IF w = "steady"
    THEN {e \in StepEnvs : e.page[Primary] = "ok" /\ e.page[1] = "absent" /\ e.criterion}
    ELSE IF committed < MaxCommits THEN StepEnvs ELSE DeadEnvs

\* no WorkflowEngine has been constructed
NoRun == [kind |-> "none", value |-> ""]
EngineIdle ==
    /\ config = [start_step |-> "done", steps_config |-> <<>>]
    /\ stepFunctions = {}
    /\ currentStepName = "done"
    /\ stepCount = 0
    /\ stepEvent = "none"
    /\ runError = "none"
    /\ log = {}
    /\ invocations = 0
    /\ stepRun = NoRun
    /\ lingering = {}

\* no workflow compiled
NoConfig == [start_step |-> <<>>, steps_config |-> <<>>]

CompileIdle ==
    /\ compile_in = <<>>
    /\ compile_out = NoConfig

----------------------------------------------------------------------------
(* generateBot *)

Init ==
    /\ pc = "start"
    /\ outcome = "running"
    /\ thrown = "none"
    /\ generated_steps = <<>>
    /\ steps = <<>>
    /\ microPlanCount = 0
    /\ microPlan = <<>>
    /\ planIdx = 0
    /\ stored = NoMeta
    /\ sessionSaved = FALSE
    /\ closed = FALSE
    /\ planCalls = 0
    /\ goalFulfilled = FALSE
    /\ gate = "none"
    /\ planExec = <<>>
    /\ histAtPlan = <<>>
    /\ fresh = FALSE
    /\ decision = "none"
    /\ recognised = TRUE
    /\ world = "open"
    /\ exec_in = NoInput
    /\ exec_out = NoResult
    /\ EngineIdle
    /\ CompileIdle

\* the Errors that can leave the try block: a failed DeepSeek call (chat throws
\* 'DeepSeek API failed: ...') and the cancel of the generic plan
ApiError == "DeepSeek API failed"
PlanCancelled == "Plan cancelled by user"

\* the Error of a failed writeFile in compileBotFiles (lines 1122-1124)
WriteError == "writeFile failed"

\* an exception that leaves generateBot without running the finally block
Throw_skips_finally(err) ==
    /\ pc' = "done"
    /\ outcome' = "threw"
    /\ thrown' = err

\* an exception leaves the try block of generateBot: control goes to finally
Throw(err) ==
    /\ pc' = "finally"
    /\ outcome' = "threw"
    /\ thrown' = err

obsVars == <<planCalls, goalFulfilled, gate, planExec, histAtPlan, fresh>>
loopVars == <<microPlanCount, microPlan, planIdx>>

\* generateDiscoveryPhase, lines 491-547: navigate, analyze the page, analyzeIntent,
\* createGenericPlan; any of the planner calls may fail
DiscoveryStart ==
    /\ pc = "start"
    /\ \E plannerFails \in BOOLEAN :
          IF plannerFails THEN Throw(ApiError)
          ELSE pc' = "generic_gate" /\ UNCHANGED <<outcome, thrown>>
    /\ UNCHANGED <<generated_steps, steps, stored, sessionSaved, closed, loopVars,
                   obsVars, exec_in, exec_out, decision, recognised, world,
                   engineVars, compileVars>>

\* lines 549-565, modify: refinePlan and present the plan again
GenericPlanModify ==
    /\ pc = "generic_gate"
    /\ \E answer \in Answers :
          promptPlanAction(answer) = "modify" /\ recognised' = OfferedAtPlanGate(answer)
    /\ decision' = "modify"
    /\ \E plannerFails \in BOOLEAN :
          IF plannerFails THEN Throw(ApiError) ELSE UNCHANGED <<pc, outcome, thrown>>
    /\ UNCHANGED <<generated_steps, steps, stored, sessionSaved, closed, loopVars,
                   obsVars, exec_in, exec_out, world, engineVars, compileVars>>

\* lines 549-565, cancel: throw new Error('Plan cancelled by user...')
GenericPlanCancel ==
    /\ pc = "generic_gate"
    /\ \E answer \in Answers :
          promptPlanAction(answer) = "cancel" /\ recognised' = OfferedAtPlanGate(answer)
    /\ decision' = "cancel"
    /\ Throw(PlanCancelled)
    /\ UNCHANGED <<generated_steps, steps, stored, sessionSaved, closed, loopVars,
                   obsVars, exec_in, exec_out, world, engineVars, compileVars>>

\* lines 549-598 and generateBot lines 105-109, approve: generate the navigation
\* step, push it, save the initial metadata
GenericPlanApprove ==
    /\ pc = "generic_gate"
    /\ \E answer \in Answers :
          promptPlanAction(answer) = "approve" /\ recognised' = OfferedAtPlanGate(answer)
    /\ decision' = "approve"
    /\ \E plannerFails \in BOOLEAN :
          IF plannerFails
          THEN Throw(ApiError) /\ UNCHANGED <<generated_steps, stored>>
          ELSE LET nav == [step_number |-> 1, idx |-> 0, success |-> TRUE]
               IN  /\ generated_steps' = PushStep(generated_steps, nav)
                   /\ stored' = saveBotProgress(generated_steps')
                   /\ pc' = "loop"
                   /\ UNCHANGED <<outcome, thrown>>
    /\ UNCHANGED <<steps, sessionSaved, closed, loopVars, obsVars, exec_in, exec_out,
                   world, engineVars, compileVars>>

\* lines 617-639: the loop test, capturePageState and the goal check
BeginIteration ==
    /\ pc = "loop"
    /\ LoopGuard(microPlanCount)
    /\ microPlanCount' = microPlanCount + 1
    /\ fresh' = TRUE
    /\ \/ Throw(ApiError) /\ UNCHANGED goalFulfilled
       \/ \E reply \in GoalReplies :
             /\ goalFulfilled' = (goalFulfilled \/ isIntentFulfilled(reply))
             /\ pc' = IF GoalBreak(isIntentFulfilled(reply)) THEN "phase_end" ELSE "analyze"
             /\ UNCHANGED <<outcome, thrown>>
    /\ UNCHANGED <<generated_steps, steps, microPlan, planIdx, stored, sessionSaved,
                   closed, planCalls, gate, planExec, histAtPlan, exec_in, exec_out,
                   decision, recognised, world, engineVars, compileVars>>

\* line 617: the loop test fails; line 750: return steps
ExitLoop ==
    /\ pc = "loop"
    /\ ~LoopGuard(microPlanCount)
    /\ pc' = "phase_end"
    /\ UNCHANGED <<outcome, thrown, generated_steps, steps, stored, sessionSaved, closed,
                   loopVars, obsVars, exec_in, exec_out, decision,
                   recognised, world, engineVars, compileVars>>

\* lines 641-668: analyze the page; with fewer than 5 elements ask analyzeRawHTML
AnalyzePage ==
    /\ pc = "analyze"
    /\ \E totalElements \in 0..(FewElements + 1) :
          IF totalElements < FewElements
          THEN \/ Throw(ApiError)
               \/ \E can_proceed \in BOOLEAN :
                     /\ pc' = IF can_proceed THEN "plan" ELSE "phase_end"
                     /\ UNCHANGED <<outcome, thrown>>
          ELSE pc' = "plan" /\ UNCHANGED <<outcome, thrown>>
    /\ UNCHANGED <<generated_steps, steps, stored, sessionSaved, closed, loopVars,
                   obsVars, exec_in, exec_out, decision, recognised, world,
                   engineVars, compileVars>>

\* lines 670-689: deepseek.createMicroPlan and the TODO display
CreateMicroPlan ==
    /\ pc = "plan"
    /\ planCalls' = planCalls + 1
    /\ \/ Throw(ApiError) /\ UNCHANGED <<microPlan, gate, planExec, histAtPlan>>
       \/ \E reply \in PlanRepliesIn(world) :
             /\ microPlan' = createMicroPlan(reply)
             /\ gate' = "pending"
             /\ planExec' = <<>>
             /\ histAtPlan' = generated_steps
             /\ pc' = "gate"
             /\ UNCHANGED <<outcome, thrown>>
    /\ UNCHANGED <<generated_steps, steps, microPlanCount, planIdx, stored, sessionSaved,
                   closed, goalFulfilled, fresh, exec_in, exec_out, decision,
                   recognised, world,
                   engineVars, compileVars>>

\* lines 691-700 (and 746-747 for a plan without steps): the user's answer
ConfirmMicroPlan ==
    /\ pc = "gate"
    /\ \E answer \in Answers :
          LET approved == confirmMicroPlan(answer)
          IN  /\ gate' = IF approved THEN "approved" ELSE "rejected"
              /\ decision' = promptPlanAction(answer)
              /\ recognised' = OfferedAtMicroGate(answer)
              /\ IF GateBreak(approved)
                 THEN pc' = "phase_end" /\ UNCHANGED <<planIdx, stored>>
                 ELSE IF microPlan = <<>>
                 THEN /\ pc' = "loop"
                      /\ stored' = saveBotProgress(generated_steps)
                      /\ UNCHANGED planIdx
                 ELSE pc' = "exec" /\ planIdx' = 1 /\ UNCHANGED stored
    /\ UNCHANGED <<outcome, thrown, generated_steps, steps, microPlanCount, microPlan,
                   sessionSaved, closed, planCalls, goalFulfilled, planExec, histAtPlan,
                   fresh, exec_in, exec_out, world, engineVars, compileVars>>

\* lines 700-747: one pass of the for-loop: generateStep, executeGeneratedStep, commit
\* or break; after the last pass, saveBotProgress
ExecutePlanStep ==
    /\ pc = "exec"
    /\ \/ /\ Throw(ApiError)
          /\ UNCHANGED <<generated_steps, steps, planIdx, stored, planExec, fresh>>
       \/ \E code \in StepCodesIn(world) :
          \E env \in StepEnvsIn(world, Len(steps)) :
             LET result == executeGeneratedStep(code, env)
                 info == StepInfo(generated_steps, planIdx, result)
                 next == AfterStep(result, planIdx, Len(microPlan))
             IN  /\ planExec' = Append(planExec, result.success)
                 /\ fresh' = FALSE
                 /\ IF ShouldCommit(result)
                    THEN /\ steps' = Append(steps, info)
                         /\ generated_steps' = PushStep(generated_steps, info)
                    ELSE UNCHANGED <<steps, generated_steps>>
                 /\ pc' = next.pc
                 /\ planIdx' = next.idx
                 /\ stored' = IF next.pc = "loop" THEN saveBotProgress(generated_steps')
                              ELSE stored
                 /\ UNCHANGED <<outcome, thrown>>
    /\ UNCHANGED <<microPlanCount, microPlan, sessionSaved, closed, planCalls,
                   goalFulfilled, gate, histAtPlan, exec_in, exec_out, decision,
                   recognised, world,
                   engineVars, compileVars>>

\* generateBot lines 140-144: push the phase's steps and save the progress
FinishWorkflow ==
    /\ pc = "phase_end"
    /\ generated_steps' = generated_steps \o steps
    /\ stored' = saveBotProgress(generated_steps')
    /\ pc' = "compile"
    /\ UNCHANGED <<outcome, thrown, steps, sessionSaved, closed, loopVars, obsVars, exec_in,
                   exec_out, decision, recognised, world, engineVars, compileVars>>

\* generateBot lines 151-158: compileBotFiles (whose writeFile may fail),
\* updateBotStatus('completed'), return
CompileBot ==
    /\ pc = "compile"
    /\ \/ Throw(WriteError) /\ UNCHANGED stored
       \/ /\ stored' = updateBotStatus(stored, "completed")
          /\ outcome' = "returned"
          /\ pc' = "finally"
          /\ UNCHANGED thrown
    /\ UNCHANGED <<generated_steps, steps, sessionSaved, closed, loopVars, obsVars,
                   exec_in, exec_out, decision, recognised, world, engineVars, compileVars>>

\* generateBot lines 160-171: the finally block
Finally ==
    /\ pc = "finally"
    /\ sessionSaved' = TRUE
    /\ closed' = TRUE
    /\ pc' = "done"
    /\ UNCHANGED <<outcome, thrown, generated_steps, steps, stored, loopVars, obsVars, exec_in,
                   exec_out, decision, recognised, world, engineVars, compileVars>>

Next ==
    \/ DiscoveryStart
    \/ GenericPlanModify
    \/ GenericPlanCancel
    \/ GenericPlanApprove
    \/ BeginIteration
    \/ ExitLoop
    \/ AnalyzePage
    \/ CreateMicroPlan
    \/ ConfirmMicroPlan
    \/ ExecutePlanStep
    \/ FinishWorkflow
    \/ CompileBot
    \/ Finally

Spec == Init /\ [][Next]_vars

\* generateBot on a steady run: plans of MaxPlanLen steps whose steps all succeed
LongRunInit ==
    /\ pc = "start"
    /\ outcome = "running"
    /\ thrown = "none"
    /\ generated_steps = <<>>
    /\ steps = <<>>
    /\ microPlanCount = 0
    /\ microPlan = <<>>
    /\ planIdx = 0
    /\ stored = NoMeta
    /\ sessionSaved = FALSE
    /\ closed = FALSE
    /\ planCalls = 0
    /\ goalFulfilled = FALSE
    /\ gate = "none"
    /\ planExec = <<>>
    /\ histAtPlan = <<>>
    /\ fresh = FALSE
    /\ decision = "none"
    /\ recognised = TRUE
    /\ world = "steady"
    /\ exec_in = NoInput
    /\ exec_out = NoResult
    /\ EngineIdle
    /\ CompileIdle

LongRunSpec == LongRunInit /\ [][Next]_vars

----------------------------------------------------------------------------
(* executeGeneratedStep on its own: every generated code on every page *)

ExecInit ==
    /\ pc = "call"
    /\ exec_in \in [code : Codes, env : Envs]
    /\ exec_out = NoResult
    /\ outcome = "running"
    /\ thrown = "none"
    /\ generated_steps = <<>>
    /\ steps = <<>>
    /\ microPlanCount = 0
    /\ microPlan = <<>>
    /\ planIdx = 0
    /\ stored = NoMeta
    /\ sessionSaved = FALSE
    /\ closed = FALSE
    /\ planCalls = 0
    /\ goalFulfilled = FALSE
    /\ gate = "none"
    /\ planExec = <<>>
    /\ histAtPlan = <<>>
    /\ fresh = FALSE
    /\ decision = "none"
    /\ recognised = TRUE
    /\ world = "open"
    /\ EngineIdle
    /\ CompileIdle

\* line 719: const executionResult = await this.executeGeneratedStep(...)
ExecCall ==
    /\ pc = "call"
    /\ exec_out' = executeGeneratedStep(exec_in.code, exec_in.env)
    /\ pc' = "returned"
    /\ UNCHANGED <<outcome, thrown, generated_steps, steps, stored, sessionSaved, closed,
                   loopVars, obsVars, exec_in, decision, recognised, world,
                   engineVars, compileVars>>

ExecNext == ExecCall

ExecSpec == ExecInit /\ [][ExecNext]_vars

----------------------------------------------------------------------------
(* compileBotFiles *)

\* the step keys of a workflow: `step_${n}` and 'done'
StepKey(n) == <<"step_", n>>
DoneKey == <<"done">>

\* the YAML block of the reply to the step prompt of step n (generateStep keeps
\* whatever stands between the fences, lines 119-127): the document the prompt asks
\* for, a document keyed by the function name, or text that is not YAML
YamlReplies(n) ==
    { [parses |-> TRUE, key |-> StepKey(n), success_event |-> StepKey(n + 1)],
      [parses |-> TRUE, key |-> <<"click_next">>, success_event |-> StepKey(n + 1)],
      [parses |-> FALSE, key |-> <<>>, success_event |-> <<>>] }

\* the committed history at the call of compileBotFiles: the navigation step
\* (step_number 1) and the executed steps as pushed at line 735, followed by the
\* executed steps once more (line 141)
Histories ==
    UNION { { LET base == [i \in 1..n |-> [step_number |-> i, yaml |-> y[i]]]
              IN  base \o SubSeq(base, 2, n) :
                y \in {f \in [1..n -> UNION {YamlReplies(i) : i \in 1..n}] :
                          \A i \in 1..n : f[i] \in YamlReplies(i)} } :
            n \in 1..MaxCompiled }

\* lines 1077-1085: steps_config[stepKey] = stepConfig[stepKey] for every step whose
\* YAML parses; a later step with the same key overwrites an earlier one
MergedSteps(history) ==
    LET parsed == {i \in DOMAIN history : history[i].yaml.parses}
        keys == {history[i].yaml.key : i \in parsed}
        last(k) == CHOOSE i \in parsed :
                      /\ history[i].yaml.key = k
                      /\ \A j \in parsed : history[j].yaml.key = k => j <= i
    IN  [k \in keys |->
            [func |-> "step",
             transitions |-> [e \in {"success_event"} |-> history[last(k)].yaml.success_event],
             timeout |-> 30]]

\* lines 1063-1102: the workflow configuration built from the committed history
compileBotFiles(history) ==
    LET merged == MergedSteps(history)
        lastStepKey == StepKey(history[Len(history)].step_number)
        patched == IF history # <<>> /\ lastStepKey \in DOMAIN merged
                   THEN [merged EXCEPT ![lastStepKey].transitions["success_event"] = DoneKey]
                   ELSE merged
        done == [func |-> "done", transitions |-> <<>>, timeout |-> 0]
    IN  [start_step |-> StepKey(1),
         steps_config |-> [k \in DOMAIN patched \cup {DoneKey} |->
                              IF k = DoneKey THEN done ELSE patched[k]]]

CompileInit ==
    /\ pc = "compile_call"
    /\ compile_in \in Histories
    /\ compile_out = NoConfig
    /\ outcome = "running"
    /\ thrown = "none"
    /\ generated_steps = <<>>
    /\ steps = <<>>
    /\ microPlanCount = 0
    /\ microPlan = <<>>
    /\ planIdx = 0
    /\ stored = NoMeta
    /\ sessionSaved = FALSE
    /\ closed = FALSE
    /\ planCalls = 0
    /\ goalFulfilled = FALSE
    /\ gate = "none"
    /\ planExec = <<>>
    /\ histAtPlan = <<>>
    /\ fresh = FALSE
    /\ decision = "none"
    /\ recognised = TRUE
    /\ world = "open"
    /\ exec_in = NoInput
    /\ exec_out = NoResult
    /\ EngineIdle

CompileCall ==
    /\ pc = "compile_call"
    /\ compile_out' = compileBotFiles(compile_in)
    /\ pc' = "compile_returned"
    /\ UNCHANGED <<outcome, thrown, generated_steps, steps, stored, sessionSaved, closed,
                   loopVars, obsVars, exec_in, exec_out, decision, recognised, world,
                   engineVars, compile_in>>

CompileNext == CompileCall

CompileSpec == CompileInit /\ [][CompileNext]_vars

----------------------------------------------------------------------------
(* WorkflowEngine: executeStep and run *)

\* const maxSteps = 1200
maxSteps == 1200

\* the events of the workflows considered; executeGenerator answers 'unknown' for a
\* step function that yields nothing
Events == {"ok", "timeout", "unknown"}

\* transitions[event] of an event without entry (undefined, or '': both are falsy)
NoTransition == ""
Targets == {"a", "b", "done", NoTransition}

\* steps_config of step a: any function key, any transition for ok and for timeout
StepA == {s \in [func : {"f", "g"}, transitions : [Events -> Targets],
                 on_timeout_event : {"timeout"}] :
             /\ s.transitions["unknown"] = NoTransition
             /\ s.transitions["timeout"] # "b"
             /\ s.func = "g" => \A e \in Events : s.transitions[e] = NoTransition}

\* steps_config of step b, where it is defined: its timeout event is its ok event
StepB == [func |-> "f",
          transitions |-> [e \in Events |-> CASE e = "ok" -> "a"
                                              [] e = "timeout" -> "done"
                                              [] OTHER -> NoTransition],
          on_timeout_event |-> "ok"]

\* the workflow configurations considered: step a alone (a transition to b then
\* names a step without definition) or steps a and b; they include cyclic ones
Configs ==
    {[start_step |-> st, steps_config |-> sc] :
        st \in {"a", "done"},
        sc \in {[n \in {"a"} |-> sa] : sa \in StepA}
               \cup {[n \in {"a", "b"} |-> IF n = "a" THEN sa ELSE StepB] : sa \in StepA}}

\* what a step function can do once invoked: yield a value before the timeout, return
\* without yielding, throw, or yield only after the timeout has elapsed
StepRuns ==
    {[kind |-> "yields", value |-> v] : v \in {"ok", ""}}
    \cup {[kind |-> k, value |-> ""] : k \in {"returns", "throws"}}
    \cup {[kind |-> "late", value |-> v] : v \in {"ok"}}

\* lines 98-106: the generator of a step function that has not yielded when the
\* timeout fires is neither returned nor awaited: it is still running when executeStep
\* returns
Outlives(run) == run.kind = "late"

\* lines 117-120: return result.value || 'unknown'
executeGenerator(run) ==
    IF run.kind = "yields" /\ run.value # "" THEN run.value ELSE "unknown"

StepResult(threw, err, ev, invoked) ==
    [threw |-> threw, error |-> err, event |-> ev, invoked |-> invoked]

\* executeStep invoking the step function before it looks the step up
executeStep_invokes_first(cfg, registered, stepName, run) ==
    IF stepName \notin DOMAIN cfg.steps_config
    THEN StepResult(TRUE, "step not found", "none", TRUE)
    ELSE IF cfg.steps_config[stepName].func \notin registered
    THEN StepResult(TRUE, "function not registered", "none", TRUE)
    ELSE IF run.kind = "throws"
    THEN StepResult(TRUE, "step function failed", "none", TRUE)
    ELSE IF run.kind = "late"
    THEN StepResult(FALSE, "none", cfg.steps_config[stepName].on_timeout_event, TRUE)
    ELSE StepResult(FALSE, "none", executeGenerator(run), TRUE)

\* executeStep waiting for the step function after the timeout has elapsed
executeStep_awaits_function(cfg, registered, stepName, run) ==
    IF stepName \notin DOMAIN cfg.steps_config
    THEN StepResult(TRUE, "step not found", "none", FALSE)
    ELSE IF cfg.steps_config[stepName].func \notin registered
    THEN StepResult(TRUE, "function not registered", "none", FALSE)
    ELSE IF run.kind = "throws"
    THEN StepResult(TRUE, "step function failed", "none", TRUE)
    ELSE IF run.kind = "late"
    THEN StepResult(FALSE, "none", run.value, TRUE)
    ELSE StepResult(FALSE, "none", executeGenerator(run), TRUE)

\* lines 86-115: executeStep(stepName) when the invoked step function does `run`
executeStep(cfg, registered, stepName, run) ==
    IF stepName \notin DOMAIN cfg.steps_config
    THEN \* throw new Error(`Step '${stepName}' not found in configuration`)
         StepResult(TRUE, "step not found", "none", FALSE)
    ELSE IF cfg.steps_config[stepName].func \notin registered
    THEN \* throw new Error(`Function '${stepConfig.func}' not registered`)
         StepResult(TRUE, "function not registered", "none", FALSE)
    ELSE IF run.kind = "throws"
    THEN \* the race rejects; catch logs and rethrows
         StepResult(TRUE, "step function failed", "none", TRUE)
    ELSE IF run.kind = "late"
    THEN \* timeoutPromise wins the race
         StepResult(FALSE, "none", cfg.steps_config[stepName].on_timeout_event, TRUE)
    ELSE StepResult(FALSE, "none", executeGenerator(run), TRUE)

\* the loop test of run() without the step ceiling
LoopTest_unbounded(name, count) == name # "done"

\* the loop test of run() with <= for <
LoopTest_inclusive(name, count) == name # "done" /\ count <= maxSteps

\* line 129: while (currentStepName !== 'done' && stepCount < maxSteps)
LoopTest(name, count) == name # "done" /\ count < maxSteps

\* line 135: stepConfig.transitions[event]
Transition(stepConfig, ev) ==
    IF ev \in DOMAIN stepConfig.transitions THEN stepConfig.transitions[ev]
    ELSE NoTransition

\* the engine after construction and registerStepFunction, run() entered (lines 48-64,
\* 74-76, 122-127)
EngineInit ==
    /\ pc = "run_loop"
    /\ config \in Configs
    /\ stepFunctions = {"f"}
    /\ currentStepName = config.start_step
    /\ stepCount = 0
    /\ stepEvent = "none"
    /\ runError = "none"
    /\ log = {}
    /\ invocations = 0
    /\ stepRun = NoRun
    /\ lingering = {}
    /\ outcome = "running"
    /\ thrown = "none"
    /\ generated_steps = <<>>
    /\ steps = <<>>
    /\ microPlanCount = 0
    /\ microPlan = <<>>
    /\ planIdx = 0
    /\ stored = NoMeta
    /\ sessionSaved = FALSE
    /\ closed = FALSE
    /\ planCalls = 0
    /\ goalFulfilled = FALSE
    /\ gate = "none"
    /\ planExec = <<>>
    /\ histAtPlan = <<>>
    /\ fresh = FALSE
    /\ decision = "none"
    /\ recognised = TRUE
    /\ world = "open"
    /\ exec_in = NoInput
    /\ exec_out = NoResult
    /\ CompileIdle

generatorVars == <<outcome, thrown, generated_steps, steps, stored, sessionSaved, closed,
                   loopVars, obsVars, decision, recognised, world, exec_in, exec_out>>

\* lines 129-132: the loop test holds, stepCount++, await executeStep(currentStepName);
\* an Error of executeStep leaves run()
RunStep ==
    /\ pc = "run_loop"
    /\ LoopTest(currentStepName, stepCount)
    /\ stepCount' = stepCount + 1
    /\ \E run \in StepRuns :
          LET r == executeStep(config, stepFunctions, currentStepName, run)
          IN  /\ invocations' = IF r.invoked THEN invocations + 1 ELSE invocations
              /\ stepRun' = IF r.invoked THEN run ELSE NoRun
              /\ lingering' = IF r.invoked /\ Outlives(run)
                               THEN lingering \cup {currentStepName} ELSE lingering
              /\ IF r.threw
                 THEN /\ pc' = "run_rejected"
                      /\ runError' = r.error
                      /\ UNCHANGED stepEvent
                 ELSE /\ pc' = "run_transition"
                      /\ stepEvent' = r.event
                      /\ UNCHANGED runError
    /\ UNCHANGED <<config, stepFunctions, currentStepName, log, generatorVars, compileVars>>

\* lines 133-143: take the transition of the event, or warn and break
RunTransition ==
    /\ pc = "run_transition"
    /\ LET next == Transition(config.steps_config[currentStepName], stepEvent)
       IN  IF next # NoTransition
           THEN /\ currentStepName' = next
                /\ pc' = "run_loop"
                /\ UNCHANGED log
           ELSE /\ log' = log \cup {"No transition found"}
                /\ pc' = "run_after_loop"
                /\ UNCHANGED currentStepName
    /\ stepEvent' = "none"
    /\ stepRun' = NoRun
    /\ UNCHANGED <<config, stepFunctions, stepCount, runError, invocations, lingering,
                   generatorVars, compileVars>>

\* line 129: the loop test fails
RunExit ==
    /\ pc = "run_loop"
    /\ ~LoopTest(currentStepName, stepCount)
    /\ pc' = "run_after_loop"
    /\ UNCHANGED <<engineVars, generatorVars, compileVars>>

\* lines 146-159: the warning of the step ceiling, 'Workflow completed', return
RunFinish ==
    /\ pc = "run_after_loop"
    /\ log' = log \cup (IF stepCount >= maxSteps THEN {"Maximum step count reached"}
                        ELSE {})
                  \cup {"Workflow completed"}
    /\ pc' = "run_resolved"
    /\ UNCHANGED <<config, stepFunctions, currentStepName, stepCount, stepEvent, runError,
                   invocations, stepRun, lingering, generatorVars, compileVars>>

\* a step function that lost the race of line 103 goes on with its body, on the same
\* this.context, until its first yield; nothing cancels it, and the value it yields is
\* dropped with the settled race
LateSettle ==
    /\ \E s \in lingering : lingering' = lingering \ {s}
    /\ UNCHANGED <<pc, config, stepFunctions, currentStepName, stepCount, stepEvent,
                   runError, log, invocations, stepRun, generatorVars, compileVars>>

EngineNext ==
    \/ RunStep
    \/ RunTransition
    \/ RunExit
    \/ RunFinish
    \/ LateSettle

EngineSpec == EngineInit /\ [][EngineNext]_vars

\* run() under the scheduling of the event loop: a timer that was set fires (lines
\* 99-101 and 143) and the continuation of a settled await runs, so run() takes its
\* next step whenever it has one; a step function that lost its race need never yield
EngineFairSpec ==
    EngineSpec /\ WF_vars(RunStep \/ RunTransition \/ RunExit \/ RunFinish)

----------------------------------------------------------------------------
(* Properties *)

IsPrefix(a, b) == Len(a) <= Len(b) /\ SubSeq(b, 1, Len(a)) = a

\* the step executed last in the plan in hand failed
LastFailed == planExec # <<>> /\ ~planExec[Len(planExec)]

\* number of steps of the plan in hand that executed successfully
Successes == Cardinality({i \in DOMAIN planExec : planExec[i]})

\* the positions of generateWorkflowPhase
InLoop == pc \in {"loop", "analyze", "plan", "gate", "exec", "phase_end"}

\* C1: a step whose execution result has success = false is never appended to
\* context.generated_steps: every entry of the history carries a successful result,
\* and while the loop runs the history has grown by exactly the successful steps of
\* the plan in hand.
C1_CommitOnSuccessOnly ==
    /\ \A i \in DOMAIN generated_steps : generated_steps[i].success
    /\ (InLoop /\ gate # "none") =>
           Len(generated_steps) = Len(histAtPlan) + Successes

\* a step has failed after an earlier step of the run was committed
C1_Witness ==
    /\ LastFailed
    /\ Len(generated_steps) > 1
    /\ pc = "loop"

\* C2: executeGeneratedStep returns success = true only if a click, fill, press or
\* select was executed on an element that was located and did not raise; without a
\* selector, and with an element but no action kind, it returns success = false.
C2_SuccessOnlyAfterAction ==
    pc = "returned" =>
        /\ exec_out.success =>
              /\ exec_out.acted \in {"click", "fill", "press", "select"}
              /\ exec_out.target \in Selectors
              /\ exec_in.env.page[exec_out.target] = "ok"
        /\ ~exec_in.code.selector => ~exec_out.success
        /\ ( /\ exec_in.code.selector
             /\ exec_in.env.page[Primary] # "absent"
             /\ ActionKind(exec_in.code.fn, exec_in.env.tag) = "none" ) => ~exec_out.success

\* an element was found but no action could be determined, and the call failed
C2_Witness ==
    /\ pc = "returned"
    /\ exec_in.code.selector
    /\ exec_in.env.page[Primary] = "ok"
    /\ exec_out.event = "no_action"
    /\ ~exec_out.success

\* C3 (as claimed): a step is reported successful only if its test criterion holds on
\* the page the action left.
C3_SuccessOnlyIfCriterionHolds ==
    (pc = "returned" /\ exec_out.success) => exec_out.criterion_held

\* C4: once isIntentFulfilled has returned true, no micro-plan is requested and no
\* step is executed any more.
C4_NoPlanningAfterGoal ==
    [][goalFulfilled => (planCalls' = planCalls /\ planExec' = planExec)]_vars

\* the goal was found fulfilled after at least one plan, and the run has ended
C4_Witness ==
    /\ goalFulfilled
    /\ planCalls > 0
    /\ pc = "done"

\* C5: when the user rejects a micro-plan, none of its steps is executed or committed
\* and every step committed before it is still in the history, at the same place.
C5_RejectedPlanNotRun ==
    gate = "rejected" =>
        /\ planExec = <<>>
        /\ IsPrefix(histAtPlan, generated_steps)
        /\ \A i \in DOMAIN generated_steps :
              \E j \in DOMAIN histAtPlan : generated_steps[i] = histAtPlan[j]

\* a plan was rejected after earlier plans had committed steps, and the run has ended
C5_Witness ==
    /\ gate = "rejected"
    /\ Len(histAtPlan) > 1
    /\ pc = "done"

\* C6: within one micro-plan no step is executed after the first failed one, and the
\* steps of the plan that succeeded before it are in the history, in order, right
\* after the steps that were there when the plan was made.
C6_StopAtFirstFailure ==
    gate = "approved" =>
        \A i \in DOMAIN planExec :
            /\ i < Len(planExec) => planExec[i]
            /\ planExec[i] =>
                  /\ Len(generated_steps) >= Len(histAtPlan) + i
                  /\ generated_steps[Len(histAtPlan) + i].idx = i
                  /\ generated_steps[Len(histAtPlan) + i].success

\* a plan's step failed after an earlier step of the same plan was committed, with
\* steps of the plan left unexecuted
C6_Witness ==
    /\ LastFailed
    /\ Len(planExec) >= 2
    /\ Len(microPlan) > Len(planExec)
    /\ pc = "loop"

\* C7 (as claimed): after a step of a micro-plan fails, the controller's next action
\* is a fresh page-state capture and goal check.
C7_AlwaysResnapshots ==
    [][(pc = "loop" /\ LastFailed) => fresh']_vars

\* C7 (amended): after a step fails, the plan in hand gets no further step; the
\* controller's next action executes no step, and is a fresh capture and goal check
\* whenever fewer than 20 micro-plans were started; a micro-plan is requested only
\* from a state captured after the last step execution; after a failure in the 20th
\* micro-plan the loop ends with no capture and no plan request.
C7_ReplansFromFreshState ==
    /\ [](LastFailed => pc # "exec")
    /\ [][(pc = "loop" /\ LastFailed) => planExec' = planExec]_vars
    /\ [][(pc = "loop" /\ LastFailed /\ microPlanCount < maxMicroPlans) => fresh']_vars
    /\ [][planCalls' # planCalls => fresh]_vars
    /\ [][(pc = "loop" /\ LastFailed /\ microPlanCount >= maxMicroPlans) =>
            (pc' = "phase_end" /\ ~fresh' /\ planCalls' = planCalls)]_vars

\* after a failed step the page was captured again, the goal was found unfulfilled,
\* and the controller is about to request a new plan
C7_Witness ==
    /\ LastFailed
    /\ fresh
    /\ pc = "plan"

\* C8 (as claimed): no step of a micro-plan with fewer than 3 or more than 5 steps is
\* executed.
C8_SizeCheckedBeforeExecution ==
    planExec # <<>> => (Len(microPlan) >= MinPlanSteps /\ Len(microPlan) <= MaxPlanSteps)

\* C9: createMicroPlan is called at most 20 times in a run.
C9_AtMostMaxMicroPlans == planCalls <= maxMicroPlans

\* the planner was asked for its 20th micro-plan
C9_Witness == planCalls = maxMicroPlans

\* C10 (as claimed): a run whose 20 micro-plans were issued and approved without the
\* goal being found fulfilled ends with status aborted.
C10_BudgetExceededAborts ==
    ( /\ pc = "done"
      /\ outcome = "returned"
      /\ planCalls = maxMicroPlans
      /\ gate = "approved"
      /\ ~goalFulfilled ) => stored.status = "aborted"

\* the user cancelled the first plan presented at a gate: the generic plan of the
\* discovery phase, or the first micro-plan of the workflow phase
FirstPlanCancelled ==
    \/ thrown = PlanCancelled
    \/ gate = "rejected" /\ planCalls = 1

\* C11 (as claimed): a run in which the user cancels the first presented plan ends
\* aborted (a recorded status aborted, or the cancel Error leaving generateBot) with
\* an empty committed history.
C11_CancelAbortsWithEmptyHistory ==
    (pc = "done" /\ FirstPlanCancelled) =>
        /\ stored.status = "aborted" \/ thrown = PlanCancelled
        /\ generated_steps = <<>>

\* C12 (as claimed): a run is recorded as completed only if a step was executed
\* successfully in it (a run that found its goal fulfilled is left aside).
C12_CompletedOnlyAfterAction ==
    (stored.status = "completed" /\ ~goalFulfilled) => steps # <<>>

\* C13 (as claimed): a run that has ended never leaves the recorded status at
\* in_progress, whether it returned or an Error left it.
C13_NoRunEndsInProgress ==
    pc = "done" => stored.status # "in_progress"

\* C14: one run() performs at most maxSteps (1200) executeStep calls, and so invokes
\* at most 1200 step functions, whatever the configuration.
C14_AtMostMaxStepsExecutions ==
    /\ stepCount <= maxSteps
    /\ invocations <= stepCount

\* a cyclic workflow was stopped by the step ceiling
C14_Witness ==
    /\ pc = "run_resolved"
    /\ stepCount = maxSteps
    /\ currentStepName # "done"

\* run() left its loop because stepCount reached maxSteps, not because of `done` or of
\* an event without transition
StoppedAtCeiling ==
    /\ pc \in {"run_after_loop", "run_resolved"}
    /\ stepCount >= maxSteps
    /\ currentStepName # "done"
    /\ "No transition found" \notin log

\* C15 (as claimed): a run() stopped by the step ceiling does not end as the normal
\* return that a workflow reaching `done` ends with.
C15_CeilingStopIsDistinguishable ==
    StoppedAtCeiling => pc # "run_resolved"

\* C16 (as claimed): after an event without transition run() executes no further step,
\* and it neither returns normally nor reports the workflow as completed.
C16_UnknownTransitionIsFatal ==
    /\ [][("No transition found" \in log) => stepCount' = stepCount]_vars
    /\ [](("No transition found" \in log) =>
              (pc # "run_resolved" /\ "Workflow completed" \notin log))

\* the current step cannot be executed: it has no definition, or its function key is
\* not registered
Unexecutable ==
    \/ currentStepName \notin DOMAIN config.steps_config
    \/ config.steps_config[currentStepName].func \notin stepFunctions

\* a step taken by run() itself, not by a step function that outlived its timeout
StepOfRun == pc' # pc

\* C17: executeStep of a step without definition, or whose function key is not
\* registered, invokes no step function and raises; run() rejects with that Error and
\* executes nothing afterwards.
C17_UnexecutableStepRaises ==
    /\ [][(/\ pc = "run_loop"
            /\ LoopTest(currentStepName, stepCount)
            /\ Unexecutable
            /\ StepOfRun) =>
            /\ pc' = "run_rejected"
            /\ runError' = (IF currentStepName \notin DOMAIN config.steps_config
                            THEN "step not found" ELSE "function not registered")
            /\ invocations' = invocations]_vars
    /\ [][pc = "run_rejected" =>
            (stepCount' = stepCount /\ invocations' = invocations)]_vars
    /\ []((pc = "run_rejected" /\ runError # "step function failed") =>
              (invocations = stepCount - 1 /\ stepRun = NoRun))

\* a transition led to a step without definition, and run() rejected
C17_Witness ==
    /\ pc = "run_rejected"
    /\ runError = "step not found"
    /\ currentStepName = "b"
    /\ invocations >= 1

\* the step function of this iteration had not yielded when the timeout elapsed
TimedOut == pc = "run_transition" /\ stepRun.kind = "late"

\* C18: when the timeout elapses first, executeStep returns the step's
\* on_timeout_event, and run() follows the transition of that event (or finds none),
\* whatever the step function yields later.
C18_TimeoutEventDecides ==
    /\ [](TimedOut => stepEvent = config.steps_config[currentStepName].on_timeout_event)
    /\ [][(TimedOut /\ StepOfRun) =>
            LET stepConfig == config.steps_config[currentStepName]
                next == Transition(stepConfig, stepConfig.on_timeout_event)
            IN  IF next # NoTransition
                THEN currentStepName' = next /\ pc' = "run_loop"
                ELSE currentStepName' = currentStepName /\ pc' = "run_after_loop"]_vars

\* a step timed out whose function yields another event later, and the timeout event
\* has a transition to another step
C18_Witness ==
    /\ TimedOut
    /\ stepRun.value # stepEvent
    /\ Transition(config.steps_config[currentStepName], stepEvent) = "done"
    /\ Transition(config.steps_config[currentStepName], stepRun.value) = "a"

\* C19 (as claimed): once the current step name is `done` no step is executed, and
\* run() ends as a completed workflow only with the current step name `done`.
C19_DoneIsTheOnlyTerminalState ==
    /\ [][currentStepName = "done" =>
            (stepCount' = stepCount /\ invocations' = invocations)]_vars
    /\ [](currentStepName = "done" => pc # "run_transition")
    /\ []("Workflow completed" \in log => currentStepName = "done")

\* C20 (as claimed): a call attempts at most k + 1 selectors for code with k fallback
\* selectors, and only the primary selector when that one matches a visible element.
C20_FallbacksOnlyIfPrimaryUnmatched ==
    pc = "returned" =>
        /\ Len(exec_out.attempted) <= Len(exec_in.code.fallbacks) + 1
        /\ (exec_in.code.selector /\ exec_in.env.page[Primary] # "absent") =>
               exec_out.attempted = <<Primary>>

\* the selectors of the generated code: the primary one and every fallback
CodeSelectors(code) == {Primary} \cup {code.fallbacks[i] : i \in DOMAIN code.fallbacks}

\* C21: when neither the primary selector nor any fallback selector matches an
\* element, executeGeneratedStep returns success = false with the error of the primary
\* waitForSelector, and has acted on nothing; a call whose attempted selectors all
\* failed to give a working element is never a success.
C21_ExhaustionIsFailure ==
    pc = "returned" =>
        /\ ( /\ exec_in.code.selector
             /\ \A sel \in CodeSelectors(exec_in.code) : exec_in.env.page[sel] = "absent" ) =>
               /\ ~exec_out.success
               /\ exec_out.error = "timeout"
               /\ exec_out.acted = "none"
        /\ (\A i \in DOMAIN exec_out.attempted :
               exec_in.env.page[exec_out.attempted[i]] # "ok") => ~exec_out.success

\* the primary selector and two fallback selectors were tried, none matched
C21_Witness ==
    /\ pc = "returned"
    /\ exec_in.code.selector
    /\ Len(exec_in.code.fallbacks) >= 2
    /\ \A sel \in CodeSelectors(exec_in.code) : exec_in.env.page[sel] = "absent"
    /\ exec_out.attempted = <<Primary, 1, 2>>
    /\ ~exec_out.success

\* C22: every micro-plan goes through the gate: a step is executed only while the plan
\* in hand has been approved, and a newly made plan starts unapproved.
C22_NoStepBeforeApproval ==
    /\ [](pc = "exec" => gate = "approved")
    /\ [](planExec # <<>> => gate = "approved")
    /\ [][(planExec' # planExec /\ planExec' # <<>>) =>
            (pc = "exec" /\ gate = "approved")]_vars
    /\ [][(planCalls' # planCalls /\ outcome' # "threw") =>
            (gate' = "pending" /\ planExec' = <<>> /\ pc' = "gate")]_vars

\* a step of the second micro-plan is about to be executed after the user approved it
C22_Witness ==
    /\ pc = "exec"
    /\ planCalls = 2
    /\ gate = "approved"
    /\ planExec # <<>>

\* C23 (as claimed): at either gate an answer naming Modify executes nothing and ends
\* the run at most through a failed planner call: the revised plan is presented at
\* the same gate again.
C23_ModifyReturnsToGate ==
    [][(pc \in {"generic_gate", "gate"} /\ decision' = "modify") =>
          /\ planExec' = planExec
          /\ pc' = pc \/ outcome' = "threw"]_vars

\* the positions inside the while loop of generateWorkflowPhase
LoopPositions == {"loop", "analyze", "plan", "gate", "exec"}

\* the three documented reasons to leave the loop: the goal is achieved, the user says
\* no to a micro-plan, 20 micro-plans have been started
DocumentedStop ==
    \/ pc = "loop" /\ goalFulfilled'
    \/ pc = "gate" /\ gate' = "rejected"
    \/ pc = "loop" /\ microPlanCount >= maxMicroPlans

StepCeiling == maxMicroPlans * MaxPlanSteps

\* C25 (as claimed): a run never commits more than 100 steps, and a run that has
\* committed 100 steps ends with status aborted.
C25_CommittedStepsBounded ==
    /\ Len(steps) <= StepCeiling
    /\ (pc = "done" /\ outcome = "returned" /\ Len(steps) >= StepCeiling) =>
           stored.status = "aborted"

\* C26 (as claimed): when a step is committed, the record on disk covers every step
\* committed before it.
C26_CheckpointBetweenCommits ==
    [][(pc = "exec" /\ Len(generated_steps') > Len(generated_steps)) =>
          stored.total_steps = Len(generated_steps)]_vars

\* C27 (as claimed): the record loadBotMetadata returns after a saveBotProgress
\* contains the generated steps that were saved, with their execution results.
C27_SaveLoadRoundTrip ==
    [][(stored' # stored /\ stored'.status = "in_progress") =>
          /\ HasSteps(loadBotMetadata(stored'))
          /\ loadBotMetadata(stored').generated_steps = generated_steps']_vars

\* the failure kind a failed result lets its reader tell: the event where there is
\* one, else the error message (of waitForSelector, or of the action)
FailureKind(result) ==
    CASE result.event = "no_action" -> "ActionIndeterminate"
      [] result.event = "element_not_found" -> "NotFound"
      [] result.error = "timeout" -> "NotFound"
      [] result.error = "action_raised" -> "ActionFailed"
      [] OTHER -> "none"

\* an action was executed on an element in the call, and raised
SomeActionRaised ==
    \E i \in DOMAIN exec_out.attempted :
        /\ exec_in.env.page[exec_out.attempted[i]] = "raises"
        /\ i = 1 => ActionKind(exec_in.code.fn, exec_in.env.tag) # "none"

\* C28 (as claimed): a failed result tells one failure kind, and tells NotFound only
\* when no action raised in the call, ActionFailed only when one did.
C28_FailureKindsDistinguishable ==
    (pc = "returned" /\ ~exec_out.success) =>
        /\ FailureKind(exec_out) # "none"
        /\ FailureKind(exec_out) = "NotFound" => ~SomeActionRaised
        /\ FailureKind(exec_out) = "ActionFailed" => SomeActionRaised

\* C29 (as claimed): the action performed by a successful call is the kind determined
\* from the function name and the element's tag, whichever selector resolved.
C29_ActionKindIndependentOfPath ==
    (pc = "returned" /\ exec_out.success) =>
        exec_out.acted = ActionKind(exec_in.code.fn, exec_in.env.tag)

\* C30: a micro-plan is requested only at the end of an iteration that captured the
\* page state and checked the goal after the last step execution, and only while every
\* goal check of the run has answered false.
C30_PlanFollowsFreshCheck ==
    [][planCalls' # planCalls => (pc = "plan" /\ fresh /\ ~goalFulfilled)]_vars

\* the second micro-plan has been requested, after the first one committed a step and
\* the goal was checked again
C30_Witness ==
    /\ pc = "gate"
    /\ planCalls = 2
    /\ gate = "pending"
    /\ fresh
    /\ Len(histAtPlan) > 1

\* C31: the committed history is append-only during a run: every step of generateBot
\* leaves the history it found as a prefix of the history it leaves, so no committed
\* step is ever removed, replaced or reordered
C31_HistoryAppendOnly ==
    [][IsPrefix(generated_steps, generated_steps')]_vars

\* a run that committed the navigation step and two executed steps, still executing
C31_Witness ==
    /\ pc = "exec"
    /\ Len(generated_steps) >= 3
    /\ Len(steps) >= 2

\* C32: when a run has returned, each committed step appears exactly once in the
\* committed history, numbered 1..n in commit order, and the saved total_steps is the
\* navigation step plus the number of successfully executed steps
C32_EachStepCommittedOnce ==
    (pc = "done" /\ outcome = "returned") =>
        /\ \A i \in DOMAIN generated_steps : generated_steps[i].step_number = i
        /\ \A i, j \in DOMAIN generated_steps :
              generated_steps[i] = generated_steps[j] => i = j
        /\ stored.total_steps = 1 + Len(steps)

\* C34: every exit from generateBot passes through the finally block: once the run has
\* returned or an Error has left the try block (the user's cancel, a failed planner or
\* step-generation call, a failed compilation), control is in the finally block or
\* past it, and past it the session save has been attempted and the sandbox browser
\* and the analyzer have been closed
C34_CleanupOnEveryExit ==
    /\ outcome \in {"returned", "threw"} => pc \in {"finally", "done"}
    /\ pc = "done" => (outcome \in {"returned", "threw"} /\ sessionSaved /\ closed)
    /\ closed => sessionSaved

\* the run ended by an Error (the cancel, a failed call, a failed compilation) and
\* the cleanup has run
C34_Witness ==
    /\ pc = "done"
    /\ outcome = "threw"
    /\ thrown = WriteError
    /\ sessionSaved
    /\ closed

\* C35 (as claimed): at a human gate a plan is approved only on an approval answer: an
\* answer that is none of the choices the prompt offers never approves the generic
\* plan or the micro-plan
C35_UnrecognisedNeverApproves ==
    [][~recognised' =>
          /\ ~(pc = "generic_gate" /\ decision' = "approve")
          /\ ~(pc = "gate" /\ gate' = "approved")]_vars

\* C38 (as claimed): run() reports 'Maximum step count reached' only if the workflow
\* did not reach `done`: a run whose 1200th step execution leads to `done` is not
\* reported as having hit the ceiling
C38_CeilingReportedOnlyShortOfDone ==
    ("Maximum step count reached" \in log) => currentStepName # "done"

\* C33 (as claimed): at most one step function is running at any time: no step
\* function is invoked while the function of a timed-out step is still running, so a
\* timed-out function does nothing more on the shared context during later steps
C33_OneStepFunctionAtATime ==
    [][invocations' > invocations => lingering = {}]_vars

\* C37: run() always terminates: every executeStep call ends, with the event of the
\* step function, with the timeout event or with an Error, and run() returns or
\* rejects after at most maxSteps (1200) step executions, also on a configuration
\* whose transitions form a cycle that never reaches `done`
C37_RunTerminates ==
    /\ <>(pc \in {"run_resolved", "run_rejected"})
    /\ [](stepCount <= maxSteps)
    /\ [][stepCount' > stepCount => pc' \in {"run_transition", "run_rejected"}]_vars

\* run() returned from a cycle a -> a that never reaches `done`, after 1200 executions
\* of which the last one timed out
C37_Witness ==
    /\ pc = "run_resolved"
    /\ stepCount = maxSteps
    /\ currentStepName = "a"
    /\ config.steps_config["a"].transitions["ok"] = "a"
    /\ config.steps_config["a"].transitions["timeout"] = "a"
    /\ lingering # {}

\* the keys visited from `key` along success_event, at most `fuel` of them; the walk
\* ends at `done`, or at a key without entry, which it records as <<"undefined">>
RECURSIVE Walk(_, _, _)
Walk(cfg, key, fuel) ==
    IF fuel = 0 THEN <<>>
    ELSE IF key \notin DOMAIN cfg.steps_config THEN << <<"undefined">> >>
    ELSE IF key = DoneKey THEN <<DoneKey>>
    ELSE <<key>> \o Walk(cfg, cfg.steps_config[key].transitions["success_event"], fuel - 1)

\* the committed steps of a history, in commit order: step 1 to the largest number
CommittedKeys(history) ==
    LET n == CHOOSE m \in 1..Len(history) :
                 /\ \E i \in DOMAIN history : history[i].step_number = m
                 /\ \A i \in DOMAIN history : history[i].step_number <= m
    IN  [i \in 1..n |-> StepKey(i)]

\* C36 (as claimed): in the compiled workflow, the walk from start_step `step_1` along
\* success_event visits every committed step in commit order and then `done`, and the
\* entry of `done` has an empty transition map and zero timeout
C36_CompiledWorkflowVisitsAllSteps ==
    pc = "compile_returned" =>
        /\ compile_out.start_step = StepKey(1)
        /\ Walk(compile_out, compile_out.start_step, Len(compile_in) + 2)
              = CommittedKeys(compile_in) \o <<DoneKey>>
        /\ compile_out.steps_config[DoneKey].transitions = <<>>
        /\ compile_out.steps_config[DoneKey].timeout = 0

====
